---- MODULE Spec2Model ----
(***************************************************************************)
(* A model of larq/quantizers.py: the quantization forward functions and   *)
(* their gradient rules as operators over exact rationals, and the         *)
(* quantizer objects (construction, build, call, configuration) as a       *)
(* state machine.                                                          *)
(*                                                                         *)
(* Numbers.  A tensor element is an exact rational <<n, d>> with d > 0 in  *)
(* lowest terms; a tensor is a sequence of elements (row-major), its shape *)
(* a sequence of naturals.  None is the empty tuple.                       *)
(***************************************************************************)
EXTENDS Integers, Sequences, FiniteSets, TLC

VARIABLES
    fnOp,     \* the function applied to fnX ("none" before it is applied)
    fnX,      \* the input tensor x
    fnDy,     \* the upstream gradient dy (<<>> for a forward evaluation)
    fnCfg,    \* the arguments: clip_value, threshold_value, twn, k_bit, mode
    fnPre,    \* DoReFa.call's local `inputs` after its preprocessing
    fnOut,    \* the tensor returned
    fnErr,    \* "none", or the exception raised
    uids,     \* the naming counters of the backend: prefix -> last uid given
    cfPc,     \* "new", "live" (cfObj is constructed) or "failed"
    cfObj,    \* a quantizer instance: class, name, _custom_metrics, attributes
    cfLast,   \* the last operation on cfObj and what it returned or raised
    cfGiven,  \* the metrics argument cfObj was constructed with
    trainingMetrics, \* the process-wide training metrics of larq.context
    kqLast,   \* get_kernel_quantizer, when it is the last operation: the
              \* identifier, the object returned and its metrics
    nmPc,     \* per thread: where it is in a construction of a SteSign
    nmLocal,  \* per thread: the counter value get_uid has loaded
    nmSite,   \* per thread: the call site of the construction under way
    nmNames,  \* the SteSign instances constructed so far: name and call site
    nmOverlap,\* whether two constructions have been under way at once
    lcObj,    \* a quantizer instance with what build made: see LcFresh
    lcLast,   \* the last operation on lcObj, its input shape and its result
    svR,      \* the attribute R of a built Sauvola instance (None before a call)
    svPc,     \* per thread: where it is in Sauvola.call
    svX,      \* per thread: the call's input tensor
    svMn,     \* per thread: the call's local mn
    svStd,    \* per thread: the call's local std
    svOut,    \* per thread: the tensor the call returned
    svOverlap \* whether two calls have been under way at once

fnVars == <<fnOp, fnX, fnDy, fnCfg, fnPre, fnOut, fnErr>>

cfVars == <<cfPc, cfObj, cfLast, cfGiven, trainingMetrics, kqLast>>

nmVars == <<nmPc, nmLocal, nmSite, nmNames, nmOverlap>>

lcVars == <<lcObj, lcLast>>

svVars == <<svR, svPc, svX, svMn, svStd, svOut, svOverlap>>

vars == <<fnVars, uids, cfVars, nmVars, lcVars, svVars>>

-----------------------------------------------------------------------------
(* Bounds of the model.                                                    *)

\* Longest tensor drawn from the grid (the spec's examples have length 4).
MaxLen == 2
\* Largest k_bit.
MaxKBit == 3
\* Largest value a naming counter reaches.
MaxUid == 3
\* Threads constructing instances at the same time.
MaxThreads == 2
\* SteSign instances constructed in one run.
MaxInstances == 3
\* Largest height of a 4-D input shape.
MaxDim == 2
\* Executions of build on one instance.
MaxBuilds == 2

-----------------------------------------------------------------------------
(* Exact rational arithmetic, standing for the float arithmetic of the     *)
(* tensor library on values where it is exact.                             *)

None == <<>>

RECURSIVE Gcd(_, _)
Gcd(a, b) == IF b = 0 THEN a ELSE Gcd(b, a % b)

IAbs(i) == IF i < 0 THEN -i ELSE i

\* n/d in lowest terms with a positive denominator (d # 0).
Rat(n, d) ==
    LET s == IF d < 0 THEN -1 ELSE 1
        g == Gcd(IAbs(n), IAbs(d))
    IN  <<(s * n) \div g, (s * d) \div g>>

Whole(i) == <<i, 1>>

RAdd(a, b) == Rat(a[1] * b[2] + b[1] * a[2], a[2] * b[2])
RSub(a, b) == Rat(a[1] * b[2] - b[1] * a[2], a[2] * b[2])
RMul(a, b) == Rat(a[1] * b[1], a[2] * b[2])
\* a / b for b # 0.
RDiv(a, b) == Rat(a[1] * b[2], a[2] * b[1])
RLe(a, b) == a[1] * b[2] <= b[1] * a[2]
RLt(a, b) == a[1] * b[2] < b[1] * a[2]
RAbs(a) == <<IAbs(a[1]), a[2]>>
RMax(a, b) == IF RLe(a, b) THEN b ELSE a
RMin(a, b) == IF RLe(a, b) THEN a ELSE b

RECURSIVE SumAbs(_)
SumAbs(x) == IF x = <<>> THEN Whole(0) ELSE RAdd(RAbs(Head(x)), SumAbs(Tail(x)))

RECURSIVE MaxAbs(_)
MaxAbs(x) ==
    IF Len(x) = 1 THEN RAbs(x[1]) ELSE RMax(RAbs(Head(x)), MaxAbs(Tail(x)))

\* 2 ** k
RECURSIVE Pow2(_)
Pow2(k) == IF k = 0 THEN 1 ELSE 2 * Pow2(k - 1)

-----------------------------------------------------------------------------
(* Primitives of the tensor library and of larq.math.                      *)

\* tf.sign: sign(0) = 0.
TfSign(a) == Whole(IF a[1] > 0 THEN 1 ELSE IF a[1] < 0 THEN -1 ELSE 0)

\* larq.math.sign: sign(0) = +1.
MathSign(a) == Whole(IF a[1] >= 0 THEN 1 ELSE -1)

\* larq.math.heaviside: 1 for x > 0, else 0.
MathHeaviside(a) == Whole(IF a[1] > 0 THEN 1 ELSE 0)

RoundFloor(a) == a[1] \div a[2]

RoundHalfUp(a) == (2 * a[1] + a[2]) \div (2 * a[2])

\* tf.round: to the nearest integer, a tie to the even one.
TfRound(a) ==
    LET f == a[1] \div a[2]
        twice == 2 * (a[1] - f * a[2])
    IN  IF twice < a[2] THEN f
        ELSE IF twice > a[2] THEN f + 1
        ELSE IF f % 2 = 0 THEN f ELSE f + 1

\* tf.clip_by_value(x, lo, hi)
ClipByValue(a, lo, hi) == RMin(RMax(a, lo), hi)

\* tf.math.divide_no_nan(a, b): 0 where b = 0.
DivideNoNan(a, b) == IF b[1] = 0 THEN Whole(0) ELSE RDiv(a, b)

\* tf.math.tanh on the points of the grid, to four decimals.
TanhTable ==
    [p \in {<<0, 1>>, <<1, 20>>, <<1, 10>>, <<1, 2>>, <<1, 1>>, <<2, 1>>} |->
        CASE p = <<0, 1>>  -> Rat(0, 1)
          [] p = <<1, 20>> -> Rat(500, 10000)
          [] p = <<1, 10>> -> Rat(997, 10000)
          [] p = <<1, 2>>  -> Rat(4621, 10000)
          [] p = <<1, 1>>  -> Rat(7616, 10000)
          [] p = <<2, 1>>  -> Rat(9640, 10000)]

InTanhDomain(a) == RAbs(a) \in DOMAIN TanhTable

\* tanh is odd.
Tanh(a) ==
    LET t == TanhTable[RAbs(a)]
    IN  IF a[1] < 0 THEN <<-t[1], t[2]>> ELSE t

-----------------------------------------------------------------------------
(* The free functions.                                                     *)

ClippedGradientStrict(x, dy, clip_value) ==
    IF clip_value = None THEN dy
    ELSE [i \in 1..Len(dy) |->
            IF RLt(RAbs(x[i]), clip_value) THEN dy[i] ELSE Whole(0)]

\* _clipped_gradient(x, dy, clip_value)
clipped_gradient(x, dy, clip_value) ==
    IF clip_value = None THEN dy
    ELSE LET zeros == [i \in 1..Len(dy) |-> Whole(0)]
             mask == [i \in 1..Len(x) |-> RLe(RAbs(x[i]), clip_value)]
         IN  [i \in 1..Len(dy) |-> IF mask[i] THEN dy[i] ELSE zeros[i]]

\* ste_sign: the forward value and the gradient rule.
ste_sign(x) == [i \in 1..Len(x) |-> MathSign(x[i])]
ste_sign_grad(x, dy, clip_value) == clipped_gradient(x, dy, clip_value)

\* ste_heaviside: the forward value (its gradient rule is ste_sign's).
ste_heaviside(x) == [i \in 1..Len(x) |-> MathHeaviside(x[i])]

\* The threshold ste_tern's _call uses.
tern_threshold(x, threshold_value, ternary_weight_networks) ==
    IF ternary_weight_networks
    THEN RDiv(RMul(Rat(7, 10), SumAbs(x)), Whole(Len(x)))
    ELSE threshold_value

TernOuterSignAtZeroPlus(x, threshold) ==
    [i \in 1..Len(x) |->
        MathSign(RAdd(MathSign(RAdd(x[i], threshold)),
                      MathSign(RSub(x[i], threshold))))]

\* tf.sign(tf.sign(x + threshold) + tf.sign(x - threshold))
tern_forward(x, threshold) ==
    [i \in 1..Len(x) |->
        TfSign(RAdd(TfSign(RAdd(x[i], threshold)),
                    TfSign(RSub(x[i], threshold))))]

TernNoOuterSign(x, threshold_value, ternary_weight_networks) ==
    LET threshold == tern_threshold(x, threshold_value, ternary_weight_networks)
    IN  [i \in 1..Len(x) |->
            RAdd(TfSign(RAdd(x[i], threshold)), TfSign(RSub(x[i], threshold)))]

\* ste_tern: the forward value.
ste_tern(x, threshold_value, ternary_weight_networks) ==
    tern_forward(x, tern_threshold(x, threshold_value, ternary_weight_networks))

\* DoReFa.weight_preprocess
weight_preprocess(inputs) ==
    LET limited == [i \in 1..Len(inputs) |-> Tanh(inputs[i])]
        dividend == MaxAbs(limited)
    IN  [i \in 1..Len(inputs) |->
            RAdd(DivideNoNan(limited[i], RMul(Whole(2), dividend)), Rat(1, 2))]

\* DoReFa.call's _k_bit_with_identity_grad: the forward value (precision >= 1).
k_bit_quantize(x, precision) ==
    LET n == Pow2(precision) - 1
    IN  [i \in 1..Len(x) |-> Rat(TfRound(RMul(x[i], Whole(n))), n)]

\* DoReFa.call's preprocessing of its inputs by mode (a valid mode).
dorefa_preprocess(inputs, mode) ==
    IF mode = "activations"
    THEN [i \in 1..Len(inputs) |-> ClipByValue(inputs[i], Whole(0), Whole(1))]
    ELSE weight_preprocess(inputs)

\* DoReFa.call's result from the preprocessed inputs (a valid mode).
dorefa_output(pre, mode, precision) ==
    LET outputs == k_bit_quantize(pre, precision)
    IN  IF mode = "weights"
        THEN [i \in 1..Len(outputs) |-> RSub(RMul(Whole(2), outputs[i]), Whole(1))]
        ELSE outputs

ValidModes == {"activations", "weights"}

-----------------------------------------------------------------------------
(* LAB.call on one pixel ([1, 1, 1, C] tensors, written as the sequence of *)
(* their channel values).                                                  *)

\* self.conv(inputs): kernel 3, padding "same", depth multiplier 2, on a
\* 1 x 1 image only the centre tap meets the input; the output derived from
\* input channel c by filter q is at channel 2c + q (from 0)
depthwise_conv(x, kernel) ==
    [f \in 1..(2 * Len(x)) |->
        RMul(x[((f - 1) \div 2) + 1],
             kernel[((f - 1) \div 2) + 1][((f - 1) % 2) + 1])]

\* tf.reshape(x, [-1, self.h, self.w, 2, self.c]): row-major, so element
\* [j][c] is channel j * C + c (from 0) of the convolution's output
lab_reshape(y, C) == [j \in 1..2 |-> [c \in 1..C |-> y[(j - 1) * C + c]]]

\* tf.argmax over two values: the first of equal values
ArgMax2(a, b) == IF RLt(a, b) THEN 1 ELSE 0

\* tf.where(out_no_grad == 0, [-1.0], [1.0])
HardSign(index) == Whole(IF index = 0 THEN -1 ELSE 1)

\* x * self.soft_argmax_beta, then soft_argmax(x) forward
lab_forward(y, C, beta) ==
    LET r == lab_reshape(y, C)
    IN  [c \in 1..C |-> HardSign(ArgMax2(RMul(r[1][c], beta), RMul(r[2][c], beta)))]

-----------------------------------------------------------------------------
(* Inputs.                                                                 *)

\* The magnitudes of the grid: 0, 0.05, 0.1, 0.5, 1, 2.
GridAbs == DOMAIN TanhTable

Grid == GridAbs \cup {<<-p[1], p[2]>> : p \in GridAbs}

RECURSIVE SeqsUpTo(_, _)
SeqsUpTo(S, n) ==
    IF n = 0 THEN {<<>>}
    ELSE LET shorter == SeqsUpTo(S, n - 1)
         IN  shorter \cup
             {Append(s, e) : s \in {t \in shorter : Len(t) = n - 1}, e \in S}

\* The inputs of the spec's examples.
SignExampleX == <<Rat(-2, 1), Rat(-1, 2), Rat(1, 2), Rat(2, 1)>>
TernExampleX == <<Rat(-2, 10), Rat(-5, 100), Rat(5, 100), Rat(2, 10)>>
DoReFaExampleX == <<Rat(-3, 10), Rat(2, 10), Rat(8, 10), Rat(15, 10)>>
\* Inputs with an element on the data-dependent threshold 0.7 * mean(|x|).
TwnBoundaryX == {<<Rat(7, 10), Rat(13, 10)>>, <<Rat(-7, 10), Rat(13, 10)>>}

Tensors ==
    (SeqsUpTo(Grid, MaxLen) \ {<<>>})
        \cup {SignExampleX, TernExampleX, DoReFaExampleX} \cup TwnBoundaryX

Ones(n) == [i \in 1..n |-> Whole(1)]

\* Upstream gradients for an input of length n: a constant, or a ramp.
Gradients(n) ==
    {[i \in 1..n |-> Whole(v)] : v \in {-1, 1, 2}} \cup {[i \in 1..n |-> Whole(i)]}

ClipValues == {None, Rat(1, 2), Whole(1), Whole(2)}
ThresholdValues == {Whole(0), Rat(1, 20), Rat(1, 10)}
KBits == 1..MaxKBit
Modes == ValidModes \cup {"bits"}

DefaultCfg ==
    [clip_value |-> Whole(1), threshold_value |-> Rat(1, 20),
     ternary_weight_networks |-> FALSE, k_bit |-> 2, mode |-> "activations",
     kernel |-> <<>>, beta |-> Whole(1)]

\* LAB on one pixel: the values of its channels, the centre taps of the
\* depthwise kernel (two per channel), the values of soft_argmax_beta.
LabPixels == {Whole(1), Rat(-1, 2)}
KernelTaps == {Whole(-1), Whole(0), Whole(1)}
LabKernels(C) == [1..C -> {<<a, b>> : a, b \in KernelTaps}]
LabBetas == {Whole(1), Whole(2)}

-----------------------------------------------------------------------------
(* Names and the naming counters of the backend.  A name is a sequence of  *)
(* strings ("ste_sign1" is <<"ste_sign", "1">>); a counter is keyed by the *)
(* prefix it numbers.                                                      *)

Digits == <<"0", "1", "2", "3", "4", "5", "6", "7", "8", "9">>

\* str(n), 0 <= n <= 9
Str(n) == Digits[n + 1]

\* The counters are a defaultdict(int).
UidOf(u, prefix) == IF prefix \in DOMAIN u THEN u[prefix] ELSE 0

SetUid(u, prefix, n) ==
    [q \in DOMAIN u \cup {prefix} |-> IF q = prefix THEN n ELSE u[q]]

\* tf.keras.backend.get_uid(prefix), uninterrupted: the counters after it.
get_uid(u, prefix) == SetUid(u, prefix, UidOf(u, prefix) + 1)

\* name + str(get_uid(name)), as the constructors form it.
NumberedName(u, prefix) == Append(prefix, Str(UidOf(get_uid(u, prefix), prefix)))

\* The name the base layer gives an instance constructed without one: the
\* class name in snake case, numbered from the second instance on.
AutoKey(snake) == <<"", snake>>
AutoName(u, snake) ==
    LET k == UidOf(u, AutoKey(snake))
    IN  IF k = 0 THEN <<snake>> ELSE <<snake, "_", Str(k)>>

NoUids == [p \in {} |-> 0]

\* The bound on the counters: another instance may be constructed.
UidsBelowBound(u) == \A p \in DOMAIN u : u[p] < MaxUid

-----------------------------------------------------------------------------
(* The quantizer classes: construction, configuration, call.               *)

Classes ==
    {"NoOp", "SteSign", "ApproxSign", "SteHeaviside", "SwishSign",
     "MagnitudeAwareSign", "SteTern", "DoReFa", "LAB", "Niblack", "Sauvola"}

\* The classes whose __init__ passes name=... to the base constructor.
NamingClasses == {"SteSign", "LAB", "Niblack", "Sauvola"}

\* The classes whose build creates what call uses.
BuildingClasses == {"LAB", "Niblack", "Sauvola"}

SnakeCase(cls) ==
    CASE cls = "NoOp" -> "no_op"
      [] cls = "ApproxSign" -> "approx_sign"
      [] cls = "SteHeaviside" -> "ste_heaviside"
      [] cls = "SwishSign" -> "swish_sign"
      [] cls = "MagnitudeAwareSign" -> "magnitude_aware_sign"
      [] cls = "SteTern" -> "ste_tern"
      [] cls = "DoReFa" -> "do_re_fa"
      [] OTHER -> cls

\* The named parameters of each __init__ (besides self and **kwargs).
InitParams(cls) ==
    CASE cls = "NoOp" -> {"precision"}
      [] cls \in {"SteSign", "SteHeaviside", "MagnitudeAwareSign"} -> {"clip_value"}
      [] cls = "SwishSign" -> {"beta"}
      [] cls = "SteTern" ->
            {"threshold_value", "ternary_weight_networks", "clip_value"}
      [] cls = "DoReFa" -> {"k_bit", "mode"}
      [] cls = "LAB" -> {"beta", "name"}
      [] cls \in {"Niblack", "Sauvola"} -> {"name"}
      [] OTHER -> {}

\* The default of the name parameter of LAB, Niblack and Sauvola.
DefaultName(cls) ==
    CASE cls = "LAB" -> <<"LAB">>
      [] cls = "Niblack" -> <<"niblack">>
      [] cls = "Sauvola" -> <<"sauvola">>
      [] OTHER -> <<"ste_sign">>

\* The keyword arguments the base layer's constructor accepts.
LayerKwargs ==
    {"trainable", "name", "dtype", "dynamic", "input_dim", "input_shape",
     "batch_input_shape", "batch_size", "weights", "activity_regularizer",
     "autocast", "implementation"}

EmptyKw == [k \in {} |-> 0]

Get(kw, k, default) == IF k \in DOMAIN kw THEN kw[k] ELSE default

\* A metrics argument: {} is None, {l} the list l.
MetricsNone == {}
Truthy(metrics) == \E l \in metrics : l # <<>>
HasFlipRatio(metrics) == \E l \in metrics : \E i \in 1..Len(l) : l[i] = "flip_ratio"

NoObj == [cls |-> "none", name |-> <<>>, custom_metrics |-> MetricsNone,
          attrs |-> EmptyKw]

NoModeCheck(mode) == "none"

\* DoReFa.__init__: the validation of mode.
dorefa_init_check(mode) == IF mode \notin ValidModes THEN "ValueError" ELSE "none"

\* DoReFa.call: the validation of self.mode (the else branch).
dorefa_call_check(mode) ==
    IF mode = "activations" THEN "none"
    ELSE IF mode = "weights" THEN "none"
    ELSE "ValueError"

\* The attributes each __init__ sets from its named arguments.
InitAttrs(cls, kw) ==
    CASE cls = "NoOp" -> [precision |-> kw.precision]
      [] cls \in {"SteSign", "SteHeaviside", "MagnitudeAwareSign"} ->
            [clip_value |-> Get(kw, "clip_value", Whole(1))]
      [] cls = "SwishSign" -> [beta |-> Get(kw, "beta", Whole(5))]
      [] cls = "SteTern" ->
            [threshold_value |-> Get(kw, "threshold_value", Rat(1, 20)),
             ternary_weight_networks |-> Get(kw, "ternary_weight_networks", FALSE),
             clip_value |-> Get(kw, "clip_value", Whole(1))]
      [] cls = "DoReFa" ->
            [precision |-> Get(kw, "k_bit", 2),
             mode |-> Get(kw, "mode", "activations")]
      [] cls = "LAB" ->
            LET beta == Get(kw, "beta", None)
            IN  [soft_argmax_beta |->
                    IF beta # None /\ beta[1] # 0
                    THEN [variable |-> FALSE, value |-> beta]
                    ELSE [variable |-> TRUE, value |-> Whole(1)]]
      [] OTHER -> EmptyKw

\* cls(**kw) with the counters u: the exception raised or the instance, and
\* the counters afterwards.
quantizer_init(cls, kw, u) ==
    LET rest == [k \in DOMAIN kw \ InitParams(cls) |-> kw[k]]
        naming == cls \in NamingClasses
        prefix == IF cls = "SteSign" THEN <<"ste_sign">>
                  ELSE Get(kw, "name", DefaultName(cls))
        u1 == IF naming THEN get_uid(u, prefix) ELSE u
        toLayer == (DOMAIN rest \ {"metrics"}) \cup (IF naming THEN {"name"} ELSE {})
        auto == ~naming /\ "name" \notin DOMAIN rest
        u2 == IF auto
              THEN SetUid(u1, AutoKey(SnakeCase(cls)),
                          UidOf(u1, AutoKey(SnakeCase(cls))) + 1)
              ELSE u1
        u3 == IF cls = "LAB" THEN get_uid(u2, <<"soft_argmax_beta">>) ELSE u2
        failed(e, uu) == [err |-> e, obj |-> NoObj, uids |-> uu]
    IN  IF cls = "NoOp" /\ "precision" \notin DOMAIN kw
        THEN failed("TypeError", u)
        ELSE IF cls = "DoReFa"
                /\ dorefa_init_check(Get(kw, "mode", "activations")) # "none"
        THEN failed(dorefa_init_check(Get(kw, "mode", "activations")), u)
        ELSE IF naming /\ "name" \in DOMAIN rest
        THEN failed("TypeError", u1)
        ELSE IF ~(toLayer \subseteq LayerKwargs)
        THEN failed("TypeError", u1)
        ELSE [err |-> "none",
              obj |-> [cls |-> cls,
                       name |-> IF naming THEN NumberedName(u, prefix)
                                ELSE IF auto THEN AutoName(u1, SnakeCase(cls))
                                ELSE rest.name,
                       custom_metrics |-> Get(rest, "metrics", MetricsNone),
                       attrs |-> InitAttrs(cls, kw)],
              uids |-> u3]

\* The base layer's get_config.
layer_config(obj) == [name |-> obj.name, trainable |-> TRUE, dtype |-> "float32"]

\* obj.get_config(): the exception raised or the record.
get_config(obj) ==
    LET base == layer_config(obj)
        a == obj.attrs
        ok(c) == [err |-> "none", cfg |-> c]
    IN  CASE obj.cls = "NoOp" -> ok(base @@ [precision |-> a.precision])
          [] obj.cls \in {"SteSign", "SteHeaviside", "MagnitudeAwareSign"} ->
                ok(base @@ [clip_value |-> a.clip_value])
          [] obj.cls = "SwishSign" -> ok(base @@ [beta |-> a.beta])
          [] obj.cls = "SteTern" ->
                ok(base @@ [threshold_value |-> a.threshold_value,
                            ternary_weight_networks |-> a.ternary_weight_networks,
                            clip_value |-> a.clip_value])
          [] obj.cls = "DoReFa" -> ok(base @@ [k_bit |-> a.precision, mode |-> a.mode])
          [] obj.cls = "LAB" ->
                IF a.soft_argmax_beta.variable
                THEN ok(base @@ [soft_argmax_beta |-> a.soft_argmax_beta.value])
                ELSE [err |-> "AttributeError", cfg |-> EmptyKw]
          [] OTHER -> ok(base)

\* obj.call(x) for a 1-D tensor x, on an instance that was not built: the
\* exception raised or the tensor returned.
quantizer_call(obj, x) ==
    LET a == obj.attrs
        ok(y) == [err |-> "none", out |-> y]
        raised(e) == [err |-> e, out |-> <<>>]
    IN  CASE obj.cls = "NoOp" -> ok(x)
          [] obj.cls \in {"SteSign", "ApproxSign", "SwishSign"} -> ok(ste_sign(x))
          [] obj.cls = "SteHeaviside" -> ok(ste_heaviside(x))
          [] obj.cls = "MagnitudeAwareSign" ->
                \* axis = list(range(0)): the mean reduces over no axis
                ok([i \in 1..Len(x) |-> RMul(RAbs(x[i]), MathSign(x[i]))])
          [] obj.cls = "SteTern" ->
                ok(ste_tern(x, a.threshold_value, a.ternary_weight_networks))
          [] obj.cls = "DoReFa" ->
                IF dorefa_call_check(a.mode) # "none"
                THEN raised(dorefa_call_check(a.mode))
                ELSE ok(dorefa_output(dorefa_preprocess(x, a.mode), a.mode,
                                      a.precision))
          [] OTHER -> raised("AttributeError")

\* The arguments instances are constructed with.
MetricsArgs == {EmptyKw, [metrics |-> {<<>>}], [metrics |-> {<<"flip_ratio">>}]}

ClassArgs(cls) ==
    CASE cls = "NoOp" -> {[precision |-> 1], [precision |-> 3]}
      [] cls \in {"SteSign", "SteHeaviside", "MagnitudeAwareSign"} ->
            {EmptyKw, [clip_value |-> None]}
      [] cls = "SwishSign" -> {EmptyKw, [beta |-> Whole(10)]}
      [] cls = "SteTern" ->
            {EmptyKw,
             [threshold_value |-> Rat(1, 10), ternary_weight_networks |-> TRUE]}
      [] cls = "DoReFa" ->
            {EmptyKw} \cup {[k_bit |-> k, mode |-> m] : k \in {1, 3}, m \in Modes}
      [] cls = "LAB" -> {EmptyKw, [beta |-> Whole(2)], [beta |-> Whole(0)]}
      [] cls \in {"Niblack", "Sauvola"} -> {EmptyKw, [name |-> <<"binarizer">>]}
      [] OTHER -> {EmptyKw}

CtorKwargs(cls) == {a @@ m : a \in ClassArgs(cls), m \in MetricsArgs}

\* 1-D tensors the instances are called on.
ProbeInputs == {<<Rat(-1, 2), Whole(0), Rat(1, 10), Whole(2)>>, <<Whole(0)>>}

NoLast ==
    [op |-> "none", cls |-> "none", kw |-> EmptyKw, err |-> "none", x |-> <<>>,
     out |-> <<>>, cfg |-> EmptyKw, copy |-> NoObj, copyErr |-> "none",
     copyOut |-> <<>>]

-----------------------------------------------------------------------------
(* Build and call on shapes.  A shape is a sequence of dimensions; a       *)
(* component build makes carries the number of the build that made it     *)
(* (made = 0: the attribute does not exist).                               *)

RECURSIVE Product(_)
Product(shape) == IF shape = <<>> THEN 1 ELSE Head(shape) * Product(Tail(shape))

\* The shape of a * b under broadcasting, for Len(a) <= Len(b); <<>> if the
\* shapes do not broadcast.
Broadcast(a, b) ==
    LET pad == Len(b) - Len(a)
        dimA(i) == IF i <= pad THEN 1 ELSE a[i - pad]
        fits == \A i \in 1..Len(b) : dimA(i) = b[i] \/ dimA(i) = 1 \/ b[i] = 1
    IN  IF fits THEN [i \in 1..Len(b) |-> IF b[i] = 1 THEN dimA(i) ELSE b[i]]
        ELSE <<>>

NoShape == <<>>
NoFlipRatio == [made |-> 0, shape |-> NoShape]
NoConv == [made |-> 0, channels |-> 0]

\* What __init__ leaves of the state build and the base layer keep; attempts
\* and builds count the executions of build's body begun and completed.
LcFresh ==
    [built |-> FALSE, attempts |-> 0, builds |-> 0, flip_ratio |-> NoFlipRatio, conv |-> NoConv,
     mean |-> 0, sign |-> <<>>, hwc |-> NoShape]

NoLcObj == NoObj @@ LcFresh

\* reported: the number of add_metric calls the operation made
NoLcLast ==
    [op |-> "none", inShape |-> NoShape, err |-> "none", outShape |-> NoShape,
     reported |-> 0]

LcIdle == lcObj = NoLcObj /\ lcLast = NoLcLast

\* lq_metrics.FlipRatio: flip_ratio(inputs) on the instrumentation built
\* against fr.shape.
flip_ratio_update(fr, shape) == IF shape = fr.shape THEN "none" ELSE "ValueError"

\* obj.build(input_shape), the method itself: the exception raised or the
\* instance afterwards, and the counters afterwards.
quantizer_build(obj, input_shape, u) ==
    LET k == obj.attempts + 1
        begun == [obj EXCEPT !.attempts = k]
        done(o, uu) ==
            [err |-> "none", obj |-> [o EXCEPT !.builds = @ + 1], uids |-> uu]
    IN  CASE obj.cls = "LAB" ->
                \* self.conv = ...(depthwise_quantizer=NoOp(precision=1))
                LET u1 == quantizer_init("NoOp", [precision |-> 1], u).uids
                    o1 == [begun EXCEPT !.conv = [made |-> k, channels |-> 0]]
                IN  IF Len(input_shape) # 4
                    THEN [err |-> "ValueError", obj |-> o1, uids |-> u1]
                    ELSE done([o1 EXCEPT !.hwc = Tail(input_shape)], u1)
          [] obj.cls \in {"Niblack", "Sauvola"} ->
                IF Len(input_shape) # 4
                THEN [err |-> "ValueError", obj |-> begun, uids |-> u]
                ELSE done([begun EXCEPT !.hwc = Tail(input_shape),
                                      !.mean = k,
                                      !.sign = NumberedName(u, <<"ste_sign">>)],
                          get_uid(u, <<"ste_sign">>))
          [] OTHER ->
                \* _BaseQuantizer.build, and the base layer's build it calls
                done([begun EXCEPT
                        !.flip_ratio =
                            IF Truthy(obj.custom_metrics)
                               /\ HasFlipRatio(obj.custom_metrics)
                            THEN [made |-> k, shape |-> input_shape]
                            ELSE obj.flip_ratio,
                        !.built = TRUE],
                     u)

\* _BaseQuantizer.call(inputs) on inputs of the given shape.
base_call(obj, shape) ==
    IF obj.flip_ratio.made > 0 /\ flip_ratio_update(obj.flip_ratio, shape) # "none"
    THEN [err |-> flip_ratio_update(obj.flip_ratio, shape), shape |-> NoShape,
          obj |-> obj, reported |-> 0]
    ELSE [err |-> "none", shape |-> shape, obj |-> obj,
          \* if hasattr(self, "flip_ratio"): self.add_metric(...)
          reported |-> IF obj.flip_ratio.made > 0 THEN 1 ELSE 0]

\* obj.call(inputs) on inputs of the given shape: the exception raised or
\* the shape of the tensor returned, and the instance afterwards.
quantizer_call_shape(obj, shape) ==
    LET raised(e) == [err |-> e, shape |-> NoShape, obj |-> obj, reported |-> 0]
    IN  CASE obj.cls = "LAB" ->
                IF obj.conv.made = 0 THEN raised("AttributeError")
                ELSE IF Len(shape) # 4 \/ obj.conv.channels \notin {0, shape[4]}
                THEN raised("ValueError")
                ELSE IF obj.hwc = NoShape THEN raised("AttributeError")
                ELSE
                    LET o1 == [obj EXCEPT !.conv.channels = shape[4]]
                        \* self.conv(inputs): depth multiplier 2
                        convOut == <<shape[1], shape[2], shape[3], 2 * shape[4]>>
                        \* tf.reshape(x, [-1, self.h, self.w, 2, self.c])
                        block == obj.hwc[1] * obj.hwc[2] * 2 * obj.hwc[3]
                        n == Product(convOut) \div block
                        \* tf.argmax(x, axis=3), tf.where(..., [-1.0], [1.0])
                        outputs == <<n, obj.hwc[1], obj.hwc[2], obj.hwc[3]>>
                    IN  IF Product(convOut) % block # 0
                        THEN [err |-> "InvalidArgumentError", shape |-> NoShape,
                              obj |-> o1, reported |-> 0]
                        ELSE base_call(o1, outputs)
          [] obj.cls \in {"Niblack", "Sauvola"} ->
                IF obj.mean = 0 THEN raised("AttributeError")
                ELSE IF Len(shape) # 4 THEN raised("ValueError")
                ELSE base_call(obj, shape)
          [] obj.cls = "MagnitudeAwareSign" ->
                \* the mean over every axis but the last, times the sign
                LET scale == IF Len(shape) = 1 THEN shape ELSE <<shape[Len(shape)]>>
                IN  base_call(obj, Broadcast(scale, shape))
          [] OTHER -> base_call(obj, shape)

\* obj(inputs), the base layer's __call__: build once if not built, mark the
\* instance built, then call.
quantizer_dunder_call(obj, shape, u) ==
    LET b == IF obj.built
             THEN [err |-> "none", obj |-> obj, uids |-> u]
             ELSE quantizer_build(obj, shape, u)
        o1 == [b.obj EXCEPT !.built = TRUE]
        r == quantizer_call_shape(o1, shape)
    IN  IF b.err # "none"
        THEN [err |-> b.err, shape |-> NoShape, obj |-> b.obj, uids |-> b.uids,
              reported |-> 0]
        ELSE [err |-> r.err, shape |-> r.shape, obj |-> r.obj, uids |-> b.uids,
              reported |-> r.reported]

\* Quantizer.compute_output_shape
compute_output_shape(input_shape) == input_shape

\* The variables the base layer tracks for an instance: a tf.Variable
\* assigned to an attribute, and the weights of the sub-layers assigned to
\* attributes once they exist (the depthwise kernel after the convolution's
\* first call); the flip-ratio metric's accumulators are not trainable.
tracked_trainable(obj) ==
    (IF obj.cls = "LAB" /\ obj.attrs.soft_argmax_beta.variable
     THEN {"soft_argmax_beta"} ELSE {})
        \cup (IF obj.conv.made > 0 /\ obj.conv.channels > 0
              THEN {"depthwise_kernel"} ELSE {})

\* obj.trainable_weights: inherited from the base layer, not overridden
trainable_weights(obj) == tracked_trainable(obj)

\* obj.non_trainable_weights: the property of _BaseQuantizer, empty
\* whatever the base layer tracks
non_trainable_weights(obj) == {}

\* The shapes of the inputs: a vector, a matrix, and [N, H, W, C] tensors.
Shapes ==
    {<<2>>, <<2, 3>>}
        \cup {<<1, h, w, c>> : h \in 1..MaxDim, w \in 1..2, c \in 1..2}

\* The arguments the instances of this specification are constructed with.
LcKwargs(cls) ==
    {a @@ m : a \in (CASE cls = "NoOp" -> {[precision |-> 1]}
                        [] cls = "LAB" -> {EmptyKw, [beta |-> Whole(2)]}
                        [] OTHER -> {EmptyKw}),
              m \in {EmptyKw, [metrics |-> {<<"flip_ratio">>}]}}

-----------------------------------------------------------------------------
(* get and get_kernel_quantizer.  An identifier is None, a callable that   *)
(* is no quantizer (a function such as ste_sign), a quantizer instance,    *)
(* the name of a quantizer class, or something else (a number).            *)

Identifier(kind, cls, obj) == [kind |-> kind, cls |-> cls, obj |-> obj]

\* The sets context.get_training_metrics() returns: the default, and the
\* one inside metrics_scope(["flip_ratio"]).
TrainingMetricsSets == {{}, {"flip_ratio"}}

\* list(s) for a set s of at most one element
ListOf(s) == IF s = {} THEN <<>> ELSE <<CHOOSE e \in s : TRUE>>

\* get(identifier): the exception raised or the object returned (None, the
\* function, or an instance), and the counters afterwards.
get(identifier, u) ==
    LET ret(k, o, uu) == [err |-> "none", kind |-> k, obj |-> o, uids |-> uu]
    IN  CASE identifier.kind = "None" -> ret("None", NoObj, u)
          [] identifier.kind = "str" ->
                \* deserialize(name): the class looked up and instantiated
                LET r == quantizer_init(identifier.cls, EmptyKw, u)
                IN  IF r.err = "none" THEN ret("instance", r.obj, r.uids)
                    ELSE [err |-> r.err, kind |-> "None", obj |-> NoObj,
                          uids |-> r.uids]
          [] identifier.kind = "function" -> ret("function", NoObj, u)
          [] identifier.kind = "instance" -> ret("instance", identifier.obj, u)
          [] OTHER -> [err |-> "ValueError", kind |-> "None", obj |-> NoObj,
                       uids |-> u]

\* get_kernel_quantizer(identifier) with the training metrics tm
get_kernel_quantizer(identifier, tm, u) ==
    LET q == get(identifier, u)
    IN  IF q.err = "none" /\ q.kind = "instance" /\ ~Truthy(q.obj.custom_metrics)
        THEN [q EXCEPT !.obj.custom_metrics = {ListOf(tm)}]
        ELSE q

NoKq ==
    [identifier |-> "none", given |-> MetricsNone, training |-> {},
     err |-> "none", kind |-> "None", metrics |-> MetricsNone]

-----------------------------------------------------------------------------
(* Each specification leaves the variables of the others at rest.         *)

CfIdle ==
    /\ cfPc = "new" /\ cfObj = NoObj /\ cfLast = NoLast
    /\ cfGiven = MetricsNone /\ trainingMetrics = {} /\ kqLast = NoKq

NmIdle ==
    /\ nmPc = <<>>
    /\ nmLocal = <<>>
    /\ nmSite = <<>>
    /\ nmNames = <<>>
    /\ nmOverlap = FALSE

SvIdle ==
    /\ svR = None
    /\ svPc = <<>>
    /\ svX = <<>>
    /\ svMn = <<>>
    /\ svStd = <<>>
    /\ svOut = <<>>
    /\ svOverlap = FALSE

ObjectsIdle == uids = NoUids /\ CfIdle /\ NmIdle /\ LcIdle /\ SvIdle

objVars == <<uids, cfVars, nmVars, lcVars, svVars>>

-----------------------------------------------------------------------------
(* The specification of build and call: one instance is constructed, then  *)
(* build is invoked on it directly (as a host layer does) and it is called *)
(* through the base layer's __call__, in any order.                        *)

Init ==
    /\ fnOp = "none" /\ fnX = <<>> /\ fnDy = <<>> /\ fnCfg = DefaultCfg
    /\ fnPre = <<>> /\ fnOut = <<>> /\ fnErr = "none"
    /\ uids = NoUids
    /\ CfIdle
    /\ NmIdle
    /\ LcIdle
    /\ SvIdle

\* obj = cls(**kw)
Construct ==
    /\ lcObj.cls = "none"
    /\ \E cls \in Classes : \E kw \in LcKwargs(cls) :
        LET r == quantizer_init(cls, kw, uids)
        IN  /\ r.err = "none"
            /\ uids' = r.uids
            /\ lcObj' = r.obj @@ LcFresh
            /\ lcLast' = [NoLcLast EXCEPT !.op = "init"]
    /\ UNCHANGED <<fnVars, svVars, cfVars, nmVars>>

\* obj.build(input_shape), invoked directly
Build ==
    /\ lcObj.cls # "none"
    /\ lcObj.attempts < MaxBuilds
    /\ \E shape \in Shapes :
        LET r == quantizer_build(lcObj, shape, uids)
        IN  /\ uids' = r.uids
            /\ lcObj' = r.obj
            /\ lcLast' = [op |-> "build", inShape |-> shape, err |-> r.err,
                          outShape |-> NoShape, reported |-> 0]
    /\ UNCHANGED <<fnVars, svVars, cfVars, nmVars>>

\* y = obj(x)
Call ==
    /\ lcObj.cls # "none"
    /\ lcObj.built \/ lcObj.attempts < MaxBuilds
    /\ \E shape \in Shapes :
        LET r == quantizer_dunder_call(lcObj, shape, uids)
        IN  /\ uids' = r.uids
            /\ lcObj' = r.obj
            /\ lcLast' = [op |-> "call", inShape |-> shape, err |-> r.err,
                          outShape |-> r.shape, reported |-> r.reported]
    /\ UNCHANGED <<fnVars, svVars, cfVars, nmVars>>

\* obj.compute_output_shape(input_shape)
ComputeOutputShape ==
    /\ lcObj.cls # "none"
    /\ \E shape \in Shapes :
        lcLast' = [op |-> "compute_output_shape", inShape |-> shape,
                   err |-> "none", outShape |-> compute_output_shape(shape),
                   reported |-> 0]
    /\ UNCHANGED <<fnVars, svVars, cfVars, nmVars, uids, lcObj>>

Next ==
    \/ Construct
    \/ Build
    \/ Call
    \/ ComputeOutputShape

Spec == Init /\ [][Next]_vars

-----------------------------------------------------------------------------
(* The specification of construction, configuration and call: one instance *)
(* is constructed; then its mode may be reassigned, it may be called, and   *)
(* its configuration may be taken and given back to its class.             *)

CfInit ==
    /\ fnOp = "none" /\ fnX = <<>> /\ fnDy = <<>> /\ fnCfg = DefaultCfg
    /\ fnPre = <<>> /\ fnOut = <<>> /\ fnErr = "none"
    /\ uids = NoUids
    /\ CfIdle
    /\ NmIdle
    /\ LcIdle
    /\ SvIdle

\* obj = cls(**kw)
CfConstruct ==
    /\ cfPc = "new"
    /\ \E cls \in Classes : \E kw \in CtorKwargs(cls) :
        LET r == quantizer_init(cls, kw, uids)
        IN  /\ uids' = r.uids
            /\ cfPc' = IF r.err = "none" THEN "live" ELSE "failed"
            /\ cfObj' = r.obj
            /\ cfLast' = [NoLast EXCEPT !.op = "init", !.cls = cls, !.kw = kw,
                                        !.err = r.err]
            /\ cfGiven' = Get(kw, "metrics", MetricsNone)
    /\ kqLast' = NoKq
    /\ UNCHANGED <<fnVars, svVars, nmVars, lcVars, trainingMetrics>>

\* obj.mode = m, on a DoReFa instance
CfSetMode ==
    /\ cfPc = "live"
    /\ cfObj.cls = "DoReFa"
    /\ \E m \in Modes :
        /\ m # cfObj.attrs.mode
        /\ cfObj' = [cfObj EXCEPT !.attrs.mode = m]
        /\ cfLast' = [NoLast EXCEPT !.op = "set_mode", !.cls = cfObj.cls]
    /\ kqLast' = NoKq
    /\ UNCHANGED <<fnVars, svVars, nmVars, lcVars, uids, cfPc, cfGiven, trainingMetrics>>

\* y = obj.call(x)
CfCall ==
    /\ cfPc = "live"
    /\ \E x \in ProbeInputs :
        LET r == quantizer_call(cfObj, x)
        IN  cfLast' = [NoLast EXCEPT !.op = "call", !.cls = cfObj.cls, !.x = x,
                                     !.err = r.err, !.out = r.out]
    /\ kqLast' = NoKq
    /\ UNCHANGED <<fnVars, svVars, nmVars, lcVars, uids, cfPc, cfObj, cfGiven,
                   trainingMetrics>>

\* config = obj.get_config()
CfGetConfig ==
    /\ cfPc = "live"
    /\ LET r == get_config(cfObj)
       IN  cfLast' = [NoLast EXCEPT !.op = "get_config", !.cls = cfObj.cls,
                                    !.err = r.err, !.cfg = r.cfg]
    /\ kqLast' = NoKq
    /\ UNCHANGED <<fnVars, svVars, nmVars, lcVars, uids, cfPc, cfObj, cfGiven,
                   trainingMetrics>>

\* copy = cls(**config), then obj.call(x) and copy.call(x) on the same x
CfFromConfig ==
    /\ cfPc = "live"
    /\ cfLast.op = "get_config"
    /\ cfLast.err = "none"
    /\ UidsBelowBound(uids)
    /\ \E x \in ProbeInputs :
        LET r == quantizer_init(cfObj.cls, cfLast.cfg, uids)
            y == quantizer_call(cfObj, x)
            z == quantizer_call(r.obj, x)
        IN  /\ uids' = r.uids
            /\ cfLast' = [cfLast EXCEPT !.op = "from_config", !.x = x,
                            !.err = y.err, !.out = y.out,
                            !.copy = r.obj, !.copyErr = r.err,
                            !.copyOut = IF r.err = "none" THEN z.out ELSE <<>>]
    /\ kqLast' = NoKq
    /\ UNCHANGED <<fnVars, svVars, nmVars, lcVars, cfPc, cfObj, cfGiven, trainingMetrics>>

\* with context.metrics_scope(tm): the training metrics inside the scope
CfMetricsScope ==
    /\ \E tm \in TrainingMetricsSets :
        /\ tm # trainingMetrics
        /\ trainingMetrics' = tm
    /\ UNCHANGED <<fnVars, svVars, nmVars, lcVars, uids, cfPc, cfObj, cfLast, cfGiven,
                   kqLast>>

\* The class names given as identifiers: one whose constructor needs no
\* argument, one whose constructor needs one.
NamedClasses == {"SteSign", "NoOp"}

\* The identifiers get_kernel_quantizer is given: the instance constructed,
\* None, a function, a class name, a number.
Identifiers ==
    {Identifier("None", "none", NoObj), Identifier("function", "none", NoObj),
     Identifier("other", "none", NoObj)}
        \cup {Identifier("str", cls, NoObj) : cls \in NamedClasses}
        \cup (IF cfPc = "live" THEN {Identifier("instance", cfObj.cls, cfObj)}
              ELSE {})

\* q = get_kernel_quantizer(identifier)
CfGetKernelQuantizer ==
    /\ UidsBelowBound(uids)
    /\ \E identifier \in Identifiers :
        LET r == get_kernel_quantizer(identifier, trainingMetrics, uids)
            own == identifier.kind = "instance"
        IN  /\ uids' = r.uids
            /\ cfObj' = IF own THEN r.obj ELSE cfObj
            /\ kqLast' = [identifier |-> identifier.kind,
                          given |-> IF own THEN cfGiven ELSE MetricsNone,
                          training |-> trainingMetrics,
                          err |-> r.err,
                          kind |-> r.kind,
                          metrics |-> r.obj.custom_metrics]
    /\ cfLast' = [NoLast EXCEPT !.op = "get_kernel_quantizer"]
    /\ UNCHANGED <<fnVars, svVars, nmVars, lcVars, cfPc, cfGiven, trainingMetrics>>

CfNext ==
    \/ CfConstruct
    \/ CfSetMode
    \/ CfCall
    \/ CfGetConfig
    \/ CfFromConfig
    \/ CfMetricsScope
    \/ CfGetKernelQuantizer

CfSpec == CfInit /\ [][CfNext]_vars

-----------------------------------------------------------------------------
(* The specification of naming: threads construct SteSign instances, each  *)
(* through SteSign.__init__'s call of get_uid("ste_sign").  get_uid is      *)
(* `uids[prefix] += 1; return uids[prefix]` with no lock, here or in the   *)
(* backend: a load, a store and a second load that other threads' steps    *)
(* may come between.                                                       *)

Threads == 1..MaxThreads

\* Where a SteSign is constructed: directly, or as the nested self.sign.
Sites == {"SteSign()", "Niblack.build", "Sauvola.build"}

SteSignPrefix == <<"ste_sign">>

NmInit ==
    /\ fnOp = "none" /\ fnX = <<>> /\ fnDy = <<>> /\ fnCfg = DefaultCfg
    /\ fnPre = <<>> /\ fnOut = <<>> /\ fnErr = "none"
    /\ uids = NoUids
    /\ CfIdle
    /\ nmPc = [t \in Threads |-> "idle"]
    /\ nmLocal = [t \in Threads |-> 0]
    /\ nmSite = [t \in Threads |-> "none"]
    /\ nmNames = <<>>
    /\ nmOverlap = FALSE
    /\ LcIdle
    /\ SvIdle

UnderWay == {t \in Threads : nmPc[t] # "idle"}

\* SteSign.__init__ starts and get_uid loads uids["ste_sign"].
NmLoad(t) ==
    /\ nmPc[t] = "idle"
    /\ Len(nmNames) + Cardinality(UnderWay) < MaxInstances
    /\ \E site \in Sites : nmSite' = [nmSite EXCEPT ![t] = site]
    /\ nmLocal' = [nmLocal EXCEPT ![t] = UidOf(uids, SteSignPrefix)]
    /\ nmPc' = [nmPc EXCEPT ![t] = "loaded"]
    /\ nmOverlap' = (nmOverlap \/ UnderWay # {})
    /\ UNCHANGED <<fnVars, svVars, cfVars, lcVars, uids, nmNames>>

\* get_uid stores the loaded value plus one.
NmStore(t) ==
    /\ nmPc[t] = "loaded"
    /\ uids' = SetUid(uids, SteSignPrefix, nmLocal[t] + 1)
    /\ nmPc' = [nmPc EXCEPT ![t] = "stored"]
    /\ UNCHANGED <<fnVars, svVars, cfVars, lcVars, nmLocal, nmSite, nmNames, nmOverlap>>

\* get_uid returns uids["ste_sign"] and the instance gets its name.
NmReturn(t) ==
    /\ nmPc[t] = "stored"
    /\ nmNames' = Append(nmNames,
            [name |-> Append(SteSignPrefix, Str(UidOf(uids, SteSignPrefix))),
             uid |-> UidOf(uids, SteSignPrefix), site |-> nmSite[t]])
    /\ nmPc' = [nmPc EXCEPT ![t] = "idle"]
    /\ UNCHANGED <<fnVars, svVars, cfVars, lcVars, uids, nmLocal, nmSite, nmOverlap>>

NmNext == \E t \in Threads : NmLoad(t) \/ NmStore(t) \/ NmReturn(t)

NmSpec == NmInit /\ [][NmNext]_vars

-----------------------------------------------------------------------------
(* Sauvola.call on one built instance from several threads.  The inputs   *)
(* are [1, 1, W, 1] tensors, written as the row of their W values; the     *)
(* values are chosen so that every float32 operation of the call is exact. *)

\* self.mean: AveragePooling2D(3, strides=1, padding="same") on a row: the
\* mean of the elements of the window that lie inside the row
AvgPoolSame(x) ==
    [i \in 1..Len(x) |->
        LET lo == IF i = 1 THEN 1 ELSE i - 1
            hi == IF i = Len(x) THEN i ELSE i + 1
            sum[j \in lo..hi] ==
                IF j = lo THEN x[j] ELSE RAdd(sum[j - 1], x[j])
        IN  RDiv(sum[hi], Whole(hi - lo + 1))]

\* The standard deviations whose square plus epsilon rounds, in float32, to
\* the square itself (1e-9 is below half an ulp from 1/16 on).
ExactRoots == {Rat(1, 4), Rat(1, 2), Whole(1), Whole(2)}

InSqrtDomain(v) == \E r \in ExactRoots : RMul(r, r) = v

\* tf.math.sqrt(v + epsilon) in float32, for v in the domain above
SqrtPlusEpsilon(v) == CHOOSE r \in ExactRoots : RMul(r, r) = v

\* self.R + epsilon in float32: R itself for R >= 1/4
PlusEpsilon(r) == r

\* mn = self.mean(inputs)
sauvola_mn(x) == AvgPoolSame(x)

\* std = sqrt(self.mean(square(abs(inputs - mn))) + epsilon)
sauvola_variance(x, mn) ==
    AvgPoolSame([i \in 1..Len(x) |->
        RMul(RAbs(RSub(x[i], mn[i])), RAbs(RSub(x[i], mn[i])))])

sauvola_std(x, mn) ==
    LET v == sauvola_variance(x, mn)
    IN  [i \in 1..Len(x) |-> SqrtPlusEpsilon(v[i])]

\* tf.math.reduce_max(tf.math.abs(std))
sauvola_R(std) == MaxAbs(std)

\* self.k of Sauvola.build
SauvolaK == Rat(1, 2)

\* th = mn * (1.0 + self.k * ((std/(self.R+epsilon)) - 1.0)), then
\* self.sign(inputs - th) and _BaseQuantizer.call
sauvola_output(x, mn, std, R) ==
    [i \in 1..Len(x) |->
        LET ratio == RDiv(std[i], PlusEpsilon(R))
            th == RMul(mn[i],
                       RAdd(Whole(1), RMul(SauvolaK, RSub(ratio, Whole(1)))))
        IN  MathSign(RSub(x[i], th))]

\* Sauvola.call run alone, from its first line to its last
sauvola_call(x) ==
    LET mn == sauvola_mn(x)
        std == sauvola_std(x, mn)
    IN  sauvola_output(x, mn, std, sauvola_R(std))

SauvolaGrid == {Whole(0), Whole(1), Whole(2), Rat(5, 2), Whole(3), Whole(4)}

\* Rows of two values whose local variance has an exact root.
SauvolaInputs ==
    {x \in {<<a, b>> : a, b \in SauvolaGrid} :
        \A i \in 1..2 : InSqrtDomain(sauvola_variance(x, sauvola_mn(x))[i])}

SvInit ==
    /\ fnOp = "none" /\ fnX = <<>> /\ fnDy = <<>> /\ fnCfg = DefaultCfg
    /\ fnPre = <<>> /\ fnOut = <<>> /\ fnErr = "none"
    /\ uids = NoUids
    /\ CfIdle
    /\ NmIdle
    /\ LcIdle
    /\ svR = None
    /\ svPc = [t \in Threads |-> "idle"]
    /\ svX = [t \in Threads |-> <<>>]
    /\ svMn = [t \in Threads |-> <<>>]
    /\ svStd = [t \in Threads |-> <<>>]
    /\ svOut = [t \in Threads |-> <<>>]
    /\ svOverlap = FALSE

InCall == {t \in Threads : svPc[t] \in {"computed", "stored"}}

\* The call starts on an input and computes its locals mn and std.
SvLocals(t) ==
    /\ svPc[t] = "idle"
    /\ \E x \in SauvolaInputs :
        /\ svX' = [svX EXCEPT ![t] = x]
        /\ svMn' = [svMn EXCEPT ![t] = sauvola_mn(x)]
        /\ svStd' = [svStd EXCEPT ![t] = sauvola_std(x, sauvola_mn(x))]
    /\ svPc' = [svPc EXCEPT ![t] = "computed"]
    /\ svOverlap' = (svOverlap \/ InCall # {})
    /\ UNCHANGED <<fnVars, uids, cfVars, nmVars, lcVars, svR, svOut>>

\* self.R = tf.math.reduce_max(tf.math.abs(std))
SvStoreR(t) ==
    /\ svPc[t] = "computed"
    /\ svR' = sauvola_R(svStd[t])
    /\ svPc' = [svPc EXCEPT ![t] = "stored"]
    /\ UNCHANGED <<fnVars, uids, cfVars, nmVars, lcVars, svX, svMn, svStd, svOut,
                   svOverlap>>

\* The threshold is computed from self.R as it is now, and the call returns.
SvThreshold(t) ==
    /\ svPc[t] = "stored"
    /\ svOut' = [svOut EXCEPT ![t] = sauvola_output(svX[t], svMn[t], svStd[t], svR)]
    /\ svPc' = [svPc EXCEPT ![t] = "done"]
    /\ UNCHANGED <<fnVars, uids, cfVars, nmVars, lcVars, svR, svX, svMn, svStd,
                   svOverlap>>

SvNext == \E t \in Threads : SvLocals(t) \/ SvStoreR(t) \/ SvThreshold(t)

SvSpec == SvInit /\ [][SvNext]_vars

-----------------------------------------------------------------------------
(* The specification of the free functions: an input is drawn, then one    *)
(* function is applied to it.                                              *)

FnInit ==
    /\ fnOp = "none"
    /\ fnX \in Tensors
    /\ fnDy = <<>>
    /\ fnCfg = DefaultCfg
    /\ fnPre = <<>>
    /\ fnOut = <<>>
    /\ fnErr = "none"
    /\ ObjectsIdle

\* y = ste_sign(x, clip_value)
CallSteSign ==
    /\ fnOp = "none"
    /\ \E c \in ClipValues :
        /\ fnOp' = "ste_sign"
        /\ fnCfg' = [fnCfg EXCEPT !.clip_value = c]
        /\ fnOut' = ste_sign(fnX)
        /\ UNCHANGED <<fnX, fnDy, fnPre, fnErr, objVars>>

\* The gradient of ste_sign(x, clip_value) for the upstream gradient dy.
GradSteSign ==
    /\ fnOp = "none"
    /\ \E c \in ClipValues, dy \in Gradients(Len(fnX)) :
        /\ fnOp' = "ste_sign_grad"
        /\ fnCfg' = [fnCfg EXCEPT !.clip_value = c]
        /\ fnDy' = dy
        /\ fnOut' = ste_sign_grad(fnX, dy, c)
        /\ UNCHANGED <<fnX, fnPre, fnErr, objVars>>

\* y = ste_tern(x, threshold_value, ternary_weight_networks, clip_value)
CallSteTern ==
    /\ fnOp = "none"
    /\ \E t \in ThresholdValues, twn \in BOOLEAN :
        /\ fnOp' = "ste_tern"
        /\ fnCfg' = [fnCfg EXCEPT !.threshold_value = t,
                                  !.ternary_weight_networks = twn]
        /\ fnOut' = ste_tern(fnX, t, twn)
        /\ UNCHANGED <<fnX, fnDy, fnPre, fnErr, objVars>>

\* DoReFa(k_bit, mode).call(x), the mode valid: the tanh table bounds the
\* inputs of the weights mode.
CallDoReFa ==
    /\ fnOp = "none"
    /\ \E k \in KBits, m \in ValidModes :
        /\ m = "weights" => \A i \in 1..Len(fnX) : InTanhDomain(fnX[i])
        /\ fnOp' = "dorefa"
        /\ fnCfg' = [fnCfg EXCEPT !.k_bit = k, !.mode = m]
        /\ fnPre' = dorefa_preprocess(fnX, m)
        /\ fnOut' = dorefa_output(fnPre', m, k)
        /\ UNCHANGED <<fnX, fnDy, fnErr, objVars>>

\* LAB.call on a [1, 1, 1, C] tensor whose channel values are fnX, the
\* instance built for that shape.
CallLab ==
    /\ fnOp = "none"
    /\ \A i \in 1..Len(fnX) : fnX[i] \in LabPixels
    /\ \E kernel \in LabKernels(Len(fnX)), beta \in LabBetas :
        /\ fnOp' = "lab"
        /\ fnCfg' = [fnCfg EXCEPT !.kernel = kernel, !.beta = beta]
        /\ fnPre' = depthwise_conv(fnX, kernel)
        /\ fnOut' = lab_forward(fnPre', Len(fnX), beta)
        /\ UNCHANGED <<fnX, fnDy, fnErr, objVars>>

\* DoReFa.call(x) on an instance whose mode is neither: the else branch.
CallDoReFaBadMode ==
    /\ fnOp = "none"
    /\ \E k \in KBits, m \in Modes \ ValidModes :
        /\ fnOp' = "dorefa"
        /\ fnCfg' = [fnCfg EXCEPT !.k_bit = k, !.mode = m]
        /\ fnErr' = "ValueError"
        /\ UNCHANGED <<fnX, fnDy, fnPre, fnOut, objVars>>

FnNext ==
    \/ CallSteSign
    \/ GradSteSign
    \/ CallSteTern
    \/ CallDoReFa
    \/ CallDoReFaBadMode
    \/ CallLab

FnSpec == FnInit /\ [][FnNext]_vars

-----------------------------------------------------------------------------
(* Claims about the free functions, checked under FnSpec.                  *)

RNeg(a) == <<-a[1], a[2]>>

\* |a| <= c, stated without RAbs.
WithinClip(a, c) == RLe(RNeg(c), a) /\ RLe(a, c)

\* C1: the gradient-clipping helper returns dy unchanged when the clip
\* threshold is None, and otherwise dy where |x| <= c (the boundary included)
\* and 0 where |x| > c, elementwise and of x's length; sign-STE with
\* clip_value 1.0 on x = [-2, -0.5, 0.5, 2] and dy = [1, 1, 1, 1] returns
\* [0, 1, 1, 0].
C1_ClippedGradient ==
    fnOp = "ste_sign_grad" =>
        /\ Len(fnOut) = Len(fnX)
        /\ fnCfg.clip_value = None => fnOut = fnDy
        /\ fnCfg.clip_value # None =>
            \A i \in 1..Len(fnX) :
                /\ WithinClip(fnX[i], fnCfg.clip_value) => fnOut[i] = fnDy[i]
                /\ ~WithinClip(fnX[i], fnCfg.clip_value) => fnOut[i] = Whole(0)
        /\ (fnX = SignExampleX /\ fnDy = Ones(4) /\ fnCfg.clip_value = Whole(1))
            => fnOut = <<Whole(0), Whole(1), Whole(1), Whole(0)>>

C1_Witness ==
    /\ fnOp = "ste_sign_grad"
    /\ fnX = SignExampleX
    /\ fnDy = Ones(4)
    /\ fnCfg.clip_value = Whole(1)
    /\ fnOut = <<Whole(0), Whole(1), Whole(1), Whole(0)>>

TernExampleCase ==
    /\ fnOp = "ste_tern"
    /\ fnX = TernExampleX
    /\ fnCfg.threshold_value = Rat(1, 10)
    /\ ~fnCfg.ternary_weight_networks

\* C2 as stated: SteTern with threshold_value 0.1 and
\* ternary_weight_networks False maps [-0.2, -0.05, 0.05, 0.2] to
\* [-1, -1, 1, 1].
C2_Original ==
    TernExampleCase => fnOut = <<Whole(-1), Whole(-1), Whole(1), Whole(1)>>

\* C2 as amended: SteTern with threshold_value 0.1 and
\* ternary_weight_networks False maps [-0.2, -0.05, 0.05, 0.2] to
\* [-1, 0, 0, 1]: the elements strictly inside (-0.1, 0.1) map to 0.
C2_TernExample ==
    TernExampleCase => fnOut = <<Whole(-1), Whole(0), Whole(0), Whole(1)>>

C2_Witness ==
    TernExampleCase /\ fnOut = <<Whole(-1), Whole(0), Whole(0), Whole(1)>>

\* The threshold of the ternarization applied in this state.
UsedThreshold ==
    IF fnCfg.ternary_weight_networks
    THEN RDiv(RMul(Rat(7, 10), SumAbs(fnX)), Whole(Len(fnX)))
    ELSE fnCfg.threshold_value

\* C3: for every threshold t > 0, fixed or 0.7 * mean(|x|), the ternary
\* forward value of every element is -1, 0 or +1, an element x = +t maps to
\* +1 and an element x = -t maps to -1.
C3_TernRangeAndBoundary ==
    (fnOp = "ste_tern" /\ RLt(Whole(0), UsedThreshold)) =>
        \A i \in 1..Len(fnX) :
            /\ fnOut[i] \in {Whole(-1), Whole(0), Whole(1)}
            /\ fnX[i] = UsedThreshold => fnOut[i] = Whole(1)
            /\ fnX[i] = RNeg(UsedThreshold) => fnOut[i] = Whole(-1)

\* x = 0.1 on the fixed threshold 0.1 maps to +1.
C3_Witness ==
    /\ fnOp = "ste_tern"
    /\ ~fnCfg.ternary_weight_networks
    /\ fnCfg.threshold_value = Rat(1, 10)
    /\ \E i \in 1..Len(fnX) : fnX[i] = Rat(1, 10) /\ fnOut[i] = Whole(1)

\* An element on the data-dependent threshold, each side, is reached too.
C3_TwnBoundaryReached ==
    /\ fnOp = "ste_tern"
    /\ fnCfg.ternary_weight_networks
    /\ RLt(Whole(0), UsedThreshold)
    /\ \E i \in 1..Len(fnX) : fnX[i] = RNeg(UsedThreshold)

\* C4: DoReFa in mode "activations" with k_bit = k >= 1 returns
\* round(clip(x, 0, 1) * n) / n, n = 2^k - 1, for every element: a point q/n
\* of the grid, q in 0..n, at most 1/(2n) from clip(x, 0, 1); for k_bit = 1
\* the input [-0.3, 0.2, 0.8, 1.5] gives [0, 0, 1, 1].
C4_DoReFaActivations ==
    (fnOp = "dorefa" /\ fnCfg.mode = "activations") =>
        LET n == Pow2(fnCfg.k_bit) - 1
            clipped(a) == IF a[1] < 0 THEN Whole(0)
                          ELSE IF RLt(Whole(1), a) THEN Whole(1) ELSE a
        IN  /\ fnErr = "none"
            /\ Len(fnOut) = Len(fnX)
            /\ \A i \in 1..Len(fnX) :
                /\ fnOut[i] = RDiv(Whole(TfRound(RMul(clipped(fnX[i]), Whole(n)))),
                                   Whole(n))
                /\ \E q \in 0..n : fnOut[i] = Rat(q, n)
                /\ RLe(RMul(Whole(2 * n), RSub(fnOut[i], clipped(fnX[i]))), Whole(1))
                /\ RLe(RMul(Whole(2 * n), RSub(clipped(fnX[i]), fnOut[i])), Whole(1))
            /\ (fnX = DoReFaExampleX /\ fnCfg.k_bit = 1)
                => fnOut = <<Whole(0), Whole(0), Whole(1), Whole(1)>>

C4_Witness ==
    /\ fnOp = "dorefa"
    /\ fnCfg.mode = "activations"
    /\ fnCfg.k_bit = 1
    /\ fnX = DoReFaExampleX
    /\ fnOut = <<Whole(0), Whole(0), Whole(1), Whole(1)>>

\* DoReFa.call in mode "weights" on an all-zero input: the divisor is 0.
ZeroDivisorCase ==
    /\ fnOp = "dorefa"
    /\ fnCfg.mode = "weights"
    /\ \A i \in 1..Len(fnX) : fnX[i] = Whole(0)

\* C5 as stated: with a zero divisor the call does not fail and the output
\* of every element is 0.
C5_Original ==
    ZeroDivisorCase =>
        fnErr = "none" /\ \A i \in 1..Len(fnX) : fnOut[i] = Whole(0)

\* C5 as amended: with a zero divisor the call does not fail and the
\* normalization quotient of every element is 0, so the preprocessed value
\* is 1/2; the output is 2 * round(n / 2) / n - 1 with the tie rounded to
\* even, which is -1 for k_bit = 1 and 1/n for k_bit >= 2, never 0.
C5_ZeroDivisor ==
    ZeroDivisorCase =>
        /\ fnErr = "none"
        /\ Len(fnOut) = Len(fnX)
        /\ \A i \in 1..Len(fnX) :
            /\ fnPre[i] = Rat(1, 2)
            /\ fnOut[i] = IF fnCfg.k_bit = 1 THEN Whole(-1)
                          ELSE Rat(1, Pow2(fnCfg.k_bit) - 1)
            /\ fnOut[i] # Whole(0)

C5_Witness ==
    /\ ZeroDivisorCase
    /\ fnCfg.k_bit = 1
    /\ Len(fnX) = 2
    /\ fnOut = <<Whole(-1), Whole(-1)>>

\* C15: for LAB on C channels, the convolution's outputs of input channel c
\* being at channels 2c and 2c+1, output channel c is the hard argmax
\* (-1/+1) over exactly those two, for every c.
C15_LabPairsOwnChannel ==
    fnOp = "lab" =>
        \A c \in 1..Len(fnX) :
            fnOut[c] = HardSign(ArgMax2(RMul(fnPre[2 * c - 1], fnCfg.beta),
                                        RMul(fnPre[2 * c], fnCfg.beta)))

\* What the reshape pairs: channels c and C + c of the convolution's
\* output, which are the two of one input channel only for C = 1.
LabPairsAcrossChannels ==
    fnOp = "lab" =>
        /\ \A c \in 1..Len(fnX) :
            fnOut[c] = HardSign(ArgMax2(RMul(fnPre[c], fnCfg.beta),
                                        RMul(fnPre[Len(fnX) + c], fnCfg.beta)))
        /\ Len(fnX) = 1 => C15_LabPairsOwnChannel

-----------------------------------------------------------------------------
(* Claims about construction, configuration and call, checked under        *)
(* CfSpec.                                                                 *)

\* C6: constructing DoReFa with a mode other than "activations" or "weights"
\* raises ValueError and yields no instance; on an instance whose mode was
\* set to an invalid value after construction every call raises ValueError
\* and returns nothing; with a valid mode neither construction nor call
\* raises ValueError.
C6_ModeValidation ==
    /\ (cfLast.op = "init" /\ cfLast.cls = "DoReFa") =>
        IF Get(cfLast.kw, "mode", "activations") \in ValidModes
        THEN cfLast.err # "ValueError" /\ cfPc = "live" /\ cfObj.cls = "DoReFa"
        ELSE cfLast.err = "ValueError" /\ cfPc = "failed" /\ cfObj = NoObj
    /\ (cfLast.op = "call" /\ cfObj.cls = "DoReFa") =>
        IF cfObj.attrs.mode \in ValidModes
        THEN cfLast.err # "ValueError" /\ Len(cfLast.out) = Len(cfLast.x)
        ELSE cfLast.err = "ValueError" /\ cfLast.out = <<>>
    /\ (cfPc = "live" /\ cfObj.cls = "DoReFa" /\ cfLast.op = "init") =>
        cfObj.attrs.mode \in ValidModes

\* A call on an instance whose mode was made invalid after construction.
C6_Witness ==
    /\ cfPc = "live"
    /\ cfObj.cls = "DoReFa"
    /\ cfObj.attrs.mode \notin ValidModes
    /\ cfLast.op = "call"
    /\ cfLast.err = "ValueError"

\* The instance is in a state its constructor can produce.
ConstructibleState == cfObj.cls = "DoReFa" => cfObj.attrs.mode \in ValidModes

\* C7: for every class, get_config() returns a record, the class's
\* constructor accepts the record (every key an argument, passed once), and
\* the fresh instance returns on the same input what the original returns.
C7_RoundTrip ==
    ConstructibleState =>
        /\ cfLast.op = "get_config" => cfLast.err = "none"
        /\ cfLast.op = "from_config" =>
            /\ cfLast.copyErr = "none"
            /\ cfLast.copy.cls = cfObj.cls
            /\ cfLast.copyOut = cfLast.out

\* The classes other than SteSign and LAB do round-trip.
RoundTripElsewhere ==
    (ConstructibleState /\ cfObj.cls \notin {"SteSign", "LAB"}) =>
        /\ cfLast.op = "get_config" => cfLast.err = "none"
        /\ cfLast.op = "from_config" =>
            /\ cfLast.copyErr = "none"
            /\ cfLast.copy.cls = cfObj.cls
            /\ cfLast.copy.attrs = cfObj.attrs
            /\ cfLast.copyOut = cfLast.out

\* SteSign and LAB never do: the constructor rejects the record, or (LAB
\* with a fixed beta) get_config itself fails.
RoundTripNeverSteSignLAB ==
    (cfObj.cls \in {"SteSign", "LAB"}) =>
        /\ cfLast.op = "get_config" =>
            (cfLast.err = "none" <=>
                (cfObj.cls = "SteSign" \/ cfObj.attrs.soft_argmax_beta.variable))
        /\ cfLast.op = "from_config" => cfLast.copyErr = "TypeError"

\* C11: get_kernel_quantizer replaces the metrics of the resolved object by
\* the training metrics exactly when the object is a quantizer instance that
\* was constructed without a metrics argument; an instance constructed with
\* a metrics list, the empty list included, keeps it; None and a function
\* are returned as they are.
C11_DefaultMetrics ==
    (kqLast.identifier # "none" /\ kqLast.err = "none") =>
        /\ kqLast.identifier = "None" => kqLast.kind = "None"
        /\ kqLast.identifier = "function" => kqLast.kind = "function"
        /\ kqLast.identifier \in {"instance", "str"} =>
            /\ kqLast.kind = "instance"
            /\ kqLast.metrics =
                    IF kqLast.given = MetricsNone THEN {ListOf(kqLast.training)}
                    ELSE kqLast.given

\* What the code does: the metrics are replaced when they are None or empty.
ReplacedWhenFalsy ==
    (kqLast.identifier # "none" /\ kqLast.err = "none") =>
        /\ kqLast.identifier = "None" => kqLast.kind = "None"
        /\ kqLast.identifier = "function" => kqLast.kind = "function"
        /\ kqLast.identifier \in {"instance", "str"} =>
            /\ kqLast.kind = "instance"
            /\ Truthy(kqLast.given) => kqLast.metrics = kqLast.given
            /\ kqLast.given = MetricsNone =>
                    \E tm \in TrainingMetricsSets : kqLast.metrics = {ListOf(tm)}

-----------------------------------------------------------------------------
(* Claims about naming, checked under NmSpec.                              *)

\* C9: any two SteSign instances constructed in the process, directly or as
\* the nested SteSign of Niblack.build or Sauvola.build, have distinct names,
\* also when their constructions run at the same time: no two constructions
\* obtain the same counter value, and the counter never falls below a value
\* it has given out.
C9_UniqueNames ==
    /\ \A i, j \in 1..Len(nmNames) :
        i # j => nmNames[i].name # nmNames[j].name /\ nmNames[i].uid # nmNames[j].uid
    /\ \A i \in 1..Len(nmNames) : nmNames[i].uid <= UidOf(uids, SteSignPrefix)

\* Constructions that never overlap do get distinct names.
UniqueWhenSequential ==
    ~nmOverlap =>
        /\ \A i, j \in 1..Len(nmNames) : i # j => nmNames[i].name # nmNames[j].name
        /\ \A i \in 1..Len(nmNames) : nmNames[i].uid = i

-----------------------------------------------------------------------------
(* Claims about Sauvola.call, checked under SvSpec.                        *)

\* C14: when calls on one built Sauvola instance interleave, each call's
\* output is the output of the same call run alone: no call reads an R
\* that another call has stored.
C14_SauvolaPerCallR ==
    \A t \in DOMAIN svPc : svPc[t] = "done" => svOut[t] = sauvola_call(svX[t])

\* Calls that never overlap do return what they return alone.
AloneWhenSequential ==
    ~svOverlap =>
        \A t \in DOMAIN svPc : svPc[t] = "done" => svOut[t] = sauvola_call(svX[t])

-----------------------------------------------------------------------------
(* Claims about build and call, checked under Spec.                        *)

\* C8: for every class and every input the call accepts, the output of
\* call(x) has the shape of x, and compute_output_shape(input_shape) is
\* input_shape; MagnitudeAwareSign and LAB included.
C8_ShapePreserved ==
    (lcLast.op \in {"call", "compute_output_shape"} /\ lcLast.err = "none") =>
        lcLast.outShape = lcLast.inShape

\* The classes other than LAB do preserve the shape, and LAB does on inputs
\* of the height, width and channels it was built with.
ShapePreservedElsewhere ==
    (/\ lcLast.op \in {"call", "compute_output_shape"}
     /\ lcLast.err = "none"
     /\ lcObj.cls = "LAB" => Tail(lcLast.inShape) = lcObj.hwc)
        => lcLast.outShape = lcLast.inShape

\* C12: in every state reached by construction, build and calls, the
\* trainable and the non-trainable weight lists of the instance are empty.
C12_NoWeights ==
    lcObj.cls # "none" =>
        /\ trainable_weights(lcObj) = {}
        /\ non_trainable_weights(lcObj) = {}

\* The non-trainable list is empty for every class, also when the flip-ratio
\* metric exists; the trainable list is empty for every class but LAB.
NoWeightsButLAB ==
    lcObj.cls # "none" =>
        /\ non_trainable_weights(lcObj) = {}
        /\ lcObj.cls # "LAB" => trainable_weights(lcObj) = {}
        /\ lcObj.cls = "LAB" =>
                trainable_weights(lcObj) \subseteq {"soft_argmax_beta", "depthwise_kernel"}

\* The instance was constructed with a metrics list containing "flip_ratio".
FlipRatioRequested == lcObj.cls # "none" /\ HasFlipRatio(lcObj.custom_metrics)

\* C13: an instance constructed with "flip_ratio" in its metrics holds,
\* after build(input_shape), a flip-ratio object built against that shape,
\* and every call after it reports the metric exactly once; an instance
\* constructed without it never holds or reports the metric.
C13_FlipRatio ==
    /\ (FlipRatioRequested /\ lcLast.op = "build" /\ lcLast.err = "none") =>
            lcObj.flip_ratio.made > 0 /\ lcObj.flip_ratio.shape = lcLast.inShape
    /\ (FlipRatioRequested /\ lcLast.op = "call" /\ lcLast.err = "none") =>
            lcObj.flip_ratio.made > 0 /\ lcLast.reported = 1
    /\ (lcObj.cls # "none" /\ ~HasFlipRatio(lcObj.custom_metrics)) =>
            lcObj.flip_ratio.made = 0 /\ lcLast.reported = 0

\* The classes that use _BaseQuantizer.build do as C13 says.
FlipRatioInBaseBuild ==
    lcObj.cls \notin BuildingClasses => C13_FlipRatio

\* LAB, Niblack and Sauvola never hold or report the metric.
FlipRatioNeverInOwnBuild ==
    lcObj.cls \in BuildingClasses =>
        lcObj.flip_ratio.made = 0 /\ lcLast.reported = 0

\* C10: the body of build executes at most once per instance, and before
\* the first call; what it creates is never created again or replaced.
C10_BuildOnce ==
    /\ lcObj.builds <= 1
    /\ lcLast.op = "call" /\ lcLast.err = "none" => lcObj.builds = 1

\* Through __call__ alone the instance is built once, before the call.
BuiltBeforeCall ==
    (lcLast.op = "call" /\ lcLast.err = "none") => lcObj.builds >= 1 /\ lcObj.built

====
